---------------------------- MODULE Spec2Model ----------------------------
(***************************************************************************)
(* State-machine model of the e-learning quiz application (src/main.py).   *)
(*                                                                         *)
(* The application is a Streamlit script: every user interaction runs the  *)
(* script top to bottom against st.session_state, and a handler that ends  *)
(* with st.rerun() is followed at once by a second run that renders the    *)
(* new page.  One action below is one interaction: the run that handles    *)
(* the click together with the rerun it requests.  An uncaught Python      *)
(* exception ends the run where it is raised; the assignments made before  *)
(* it stay in st.session_state.                                            *)
(***************************************************************************)
EXTENDS Integers, Sequences, FiniteSets, TLC

VARIABLES
    now,              \* wall clock, in seconds (datetime.now())
    user_email,       \* st.session_state.user_email
    user_name,        \* st.session_state.user_name
    current_page,     \* st.session_state.current_page
    selected_theme,   \* st.session_state.selected_theme
    start_time,       \* st.session_state.start_time
    quiz_answers,     \* st.session_state.quiz_answers : ordinal -> bool
    quiz_score,       \* st.session_state.quiz_score
    quiz_time_spent,  \* st.session_state.quiz_time_spent (not set by init)
    radio,            \* widget state of the radios q_1..q_N of the quiz page
    sheet,            \* rows handed to save_to_google_sheets, in order
    outbox,           \* calls of send_email_notification, in order
    failed_calls,     \* collaborator calls of the last interaction that returned False
    last_exception,   \* exception that ended the last script run, or "none"
    email_settings,   \* config['email_settings'] flags (read-only)
    probe             \* inputs and results of a function checked on its own

session == <<user_email, user_name, current_page, selected_theme, start_time,
             quiz_answers, quiz_score, quiz_time_spent>>

vars == <<now, user_email, user_name, current_page, selected_theme, start_time,
          quiz_answers, quiz_score, quiz_time_spent, radio, sheet, outbox,
          failed_calls, last_exception, email_settings, probe>>

(***************************************************************************)
(* Bounds of the model.                                                    *)
(***************************************************************************)
\* the clock stops advancing at MaxNow seconds
MaxNow == 60
\* no theme is started once MaxAttempts rows were handed to the result sink
MaxAttempts == 1

(***************************************************************************)
(* Python values.                                                          *)
(***************************************************************************)
\* None in a field that otherwise holds a string
None == "None"
\* None in a field that otherwise holds a number (all numbers stored are >= 0)
NoneInt == -1
\* quiz_time_spent before its first assignment: init_session_state does not
\* create it, and reading it raises AttributeError
Unset == -2
\* None where a list of questions is expected (no question is without options)
NoneList == <<[options |-> {}, correct_answer |-> NoneInt]>>
\* None where a row of employees.csv is expected
NoneRow == [mail |-> None, name |-> None]

\* the value of probe while the application runs
NoProbe == [stage |-> "off"]

SecondsPerMinute == 60
\* the clock advances in steps of half a minute
TickSeconds == SecondsPerMinute \div 2

(***************************************************************************)
(* Configuration and data files (config.yaml, employees.csv, the question  *)
(* files).  They are inputs of the program; the values below are the       *)
(* configuration the model runs with.                                      *)
(*   A: two questions, B: one question, Z: a question file with an empty   *)
(*   list, F: a question file that cannot be read, D: a disabled theme.    *)
(* A question is represented by the number of its (distinct) options and   *)
(* its 'correct_answer' index.                                             *)
(***************************************************************************)
config ==
    [ themes |->
        [ A |-> [title |-> "Theme A", time_limit_minutes |-> 2,
                 passing_score |-> 60, enabled |-> TRUE,  questions_path |-> "a.json"],
          B |-> [title |-> "Theme B", time_limit_minutes |-> 1,
                 passing_score |-> 100, enabled |-> TRUE,  questions_path |-> "b.json"],
          Z |-> [title |-> "Theme Z", time_limit_minutes |-> 1,
                 passing_score |-> 50, enabled |-> TRUE,  questions_path |-> "z.json"],
          F |-> [title |-> "Theme F", time_limit_minutes |-> 1,
                 passing_score |-> 50, enabled |-> TRUE,  questions_path |-> "missing.json"],
          D |-> [title |-> "Theme D", time_limit_minutes |-> 1,
                 passing_score |-> 50, enabled |-> FALSE, questions_path |-> "d.json"] ],
      admins |-> <<"admin1", "admin2">> ]

ThemeKeys == DOMAIN config.themes

\* a question with two options
Question(correct_answer) == [options |-> 0..1, correct_answer |-> correct_answer]

\* the question files on disk: path -> the list under 'questions'
question_files ==
    [ p \in {"a.json", "b.json", "z.json", "d.json"} |->
        CASE p = "a.json" -> <<Question(0), Question(1)>>
          [] p = "b.json" -> <<Question(1)>>
          [] p = "z.json" -> <<>>
          [] p = "d.json" -> <<Question(0)>> ]

\* employees.csv: rows (mail address, full name)
employees == << [mail |-> "u1@co", name |-> "User One"],
                [mail |-> "u2@co", name |-> "User Two"] >>

\* what a visitor may type in the login box
TypedEmails == {"", "u1@co", "u2@co", "x@co"}


(***************************************************************************)
(* Utility functions.                                                      *)
(***************************************************************************)
\* load_questions: the list under 'questions', or None when the file cannot
\* be opened or parsed
load_questions(theme_key) ==
    LET questions_path == config.themes[theme_key].questions_path
    IN  IF questions_path \in DOMAIN question_files
        THEN question_files[questions_path]
        ELSE NoneList

\* authenticate_user: the first row of employees.csv with that mail address
authenticate_user(email) ==
    LET user == SelectSeq(employees, LAMBDA row : row.mail = email)
    IN  IF Len(user) > 0 THEN user[1] ELSE NoneRow

\* get_enabled_themes without the test of the 'enabled' flag
get_enabled_themes_unfiltered == ThemeKeys

\* get_enabled_themes: the theme keys whose 'enabled' flag is set
get_enabled_themes == { theme_key \in ThemeKeys : config.themes[theme_key].enabled }

\* send_email_notification: its return value; the calls listed in down fail
send_email_notification(recipient, subject, down) == <<recipient, subject>> \notin down

\* save_to_google_sheets: its return value
save_to_google_sheets(down) == <<"sheets", "append">> \notin down

\* every collaborator call an interaction can make
Calls == {<<"sheets", "append">>} \cup
         ({config.admins[i] : i \in DOMAIN config.admins} \X {"completion", "retake"})

\* the calls a drawing of the result page can make
RetakeCalls == { call \in Calls : call[2] = "retake" }

\* the loop over the admins giving up at the first send that fails
RECURSIVE notify_admins_until_failure(_, _, _)
notify_admins_until_failure(admins, msg, down) ==
    IF admins = <<>> THEN <<>>
    ELSE IF send_email_notification(Head(admins), msg.subject, down)
         THEN <<[msg EXCEPT !.to = Head(admins)]>>
                  \o notify_admins_until_failure(Tail(admins), msg, down)
         ELSE <<[msg EXCEPT !.to = Head(admins)]>>

\* 'for admin in config["admins"]: send_email_notification(admin, ...)':
\* the calls made (the return value of each is dropped)
RECURSIVE notify_admins(_, _, _)
notify_admins(admins, msg, down) ==
    IF admins = <<>> THEN <<>>
    ELSE <<[msg EXCEPT !.to = Head(admins)]>> \o notify_admins(Tail(admins), msg, down)

\* the calls among msgs that returned False
FailedSends(msgs, down) ==
    { <<msgs[i].to, msgs[i].subject>> : i \in { j \in DOMAIN msgs :
          ~send_email_notification(msgs[j].to, msgs[j].subject, down) } }

(***************************************************************************)
(* main(): which page function a script run calls.                         *)
(***************************************************************************)
main_view ==
    IF current_page = "login" \/ user_email = None THEN "login" ELSE current_page

(***************************************************************************)
(* Quiz page: timer, answer recording, scoring.                            *)
(***************************************************************************)
\* elapsed seconds since the theme was selected
elapsed_seconds == now - start_time

\* the time test letting the quiz go on when no time remains
remaining_time_not_negative(theme_key) ==
    config.themes[theme_key].time_limit_minutes * SecondsPerMinute - elapsed_seconds >= 0

\* 'remaining_time > 0' with remaining_time = time_limit - elapsed_time (minutes)
remaining_time_positive(theme_key) ==
    config.themes[theme_key].time_limit_minutes * SecondsPerMinute - elapsed_seconds > 0

\* int(elapsed_time)
time_spent_of(seconds) == seconds \div SecondsPerMinute

\* the radios as rendered: a radio without widget state shows option 0
rendered_radio(r, questions) ==
    IF Len(r) = Len(questions) THEN r ELSE [i \in 1..Len(questions) |-> 0]

\* the answer loop running one ordinal past the last question
record_answers_past_end(answers, questions, r) ==
    [ i \in (DOMAIN answers) \cup (1..(Len(questions) + 1)) |->
        IF i \in 1..Len(questions)
        THEN r[i] = questions[i].correct_answer
        ELSE FALSE ]

\* the loop over enumerate(questions, 1): quiz_answers[i] = (selected_index == correct_answer)
record_answers(answers, questions, r) ==
    [ i \in (DOMAIN answers) \cup (1..Len(questions)) |->
        IF i \in 1..Len(questions)
        THEN r[i] = questions[i].correct_answer
        ELSE answers[i] ]

\* sum(st.session_state.quiz_answers.values())
correct_count_of(answers) == Cardinality({ i \in DOMAIN answers : answers[i] })

(***************************************************************************)
(* The score, int((correct_count / len(questions)) * 100), is computed in  *)
(* Python floats (IEEE 754 doubles, round to nearest even).  With          *)
(* x = correct_count / n and k = 100 * x:                                  *)
(*   - the quotient is q = x + d, where |d| is at most half a unit of the  *)
(*     53-bit significand of x, and the product is the double nearest to   *)
(*     k + 100 * d;                                                        *)
(*   - when k is no integer it is at least 1/n away from one, far more     *)
(*     than 100 * d, and int() gives floor(k);                             *)
(*   - when k is an integer, int() gives k - 1 exactly when the quotient   *)
(*     was rounded down by so much that the product rounds below k.        *)
(* The rounding of the quotient is found by long division, which needs     *)
(* only the remainders (all below n).                                      *)
(***************************************************************************)
\* bits of the significand of a double
DoubleMantissaBits == 53

RECURSIVE Pow2(_)
Pow2(e) == IF e <= 0 THEN 1 ELSE 2 * Pow2(e - 1)

\* the j with 2^-j <= c/n < 2^(1-j), for c > 0
RECURSIVE BinaryExponentFrom(_, _, _)
BinaryExponentFrom(c, n, j) ==
    IF c >= n
    THEN IF c >= n * Pow2(1 - j) THEN BinaryExponentFrom(c, n, j - 1) ELSE j
    ELSE IF c * Pow2(j) < n THEN BinaryExponentFrom(c, n, j + 1) ELSE j

BinaryExponent(c, n) == IF c >= n THEN BinaryExponentFrom(c, n, 0) ELSE BinaryExponentFrom(c, n, 1)

\* (r * 2^steps) mod n
RECURSIVE ShiftedRemainder(_, _, _)
ShiftedRemainder(r, n, steps) ==
    IF steps = 0 \/ r = 0 THEN r ELSE ShiftedRemainder((2 * r) % n, n, steps - 1)

\* floor(log2(k)), for k >= 1
RECURSIVE Log2From(_, _)
Log2From(k, e) == IF Pow2(e + 1) <= k THEN Log2From(k, e + 1) ELSE e

\* correct_count / n was rounded down, and (correct_count / n) * 100 rounds
\* below the integer k = 100 * correct_count / n
product_rounds_below(correct_count, n, k) ==
    LET j == BinaryExponent(correct_count, n)
        steps == j + DoubleMantissaBits - 1
        \* the part of the quotient below the last bit of the significand, times n
        r == ShiftedRemainder(correct_count % n, n, steps)
        last_bit == ((2 * ShiftedRemainder(correct_count % n, n, steps - 1)) \div n) % 2
        rounded_up == 2 * r > n \/ (2 * r = n /\ last_bit = 1)
        e == Log2From(k, 0)
        \* exponent of the spacing of the doubles just below k
        below == IF Pow2(e) = k THEN e - 1 ELSE e
    IN  /\ correct_count % n # 0   \* else the quotient is exact
        /\ r # 0
        /\ ~rounded_up
        \* 100 * (r / n) units of the quotient exceed half the spacing below k
        /\ 200 * r > n * Pow2(below + j)

\* int((correct_count / len(questions)) * 100)
score_of(correct_count, n) ==
    LET k == (correct_count * 100) \div n
    IN  IF (correct_count * 100) % n # 0 \/ correct_count = 0 THEN k
        ELSE IF product_rounds_below(correct_count, n, k) THEN k - 1 ELSE k

\* answers_list = [quiz_answers.get(i + 1, False) for i in range(len(questions))]
answers_list_of(answers, questions) ==
    [ i \in 1..Len(questions) |-> IF i \in DOMAIN answers THEN answers[i] ELSE FALSE ]

(***************************************************************************)
(* Result page.                                                            *)
(***************************************************************************)
\* the exception show_result_page raises before it draws anything: reading a
\* quiz_time_spent that was never assigned, or comparing a None score
result_page_exception(score, time_spent) ==
    IF time_spent = Unset THEN "AttributeError"
    ELSE IF score = NoneInt THEN "TypeError"
    ELSE "none"

\* the branch 'if score >= passing_score' of the result page (the retake mails
\* are in its else branch)
passed_of(score, passing_score) == score >= passing_score

\* the delta of the score metric of the result page
metric_delta(score, passing_score) == IF score >= passing_score THEN "+" ELSE "-"

\* pass_status, the verdict the result page shows
pass_status(score, passing_score) == IF score >= passing_score THEN "pass" ELSE "fail"

\* the verdict of the completion mail with 'score > passing_score' as its test
completion_verdict_strict(score, passing_score) ==
    IF score > passing_score THEN "pass" ELSE "fail"

\* the verdict line of the completion mail
completion_verdict(score, passing_score) ==
    IF score >= passing_score THEN "pass" ELSE "fail"

\* the retake mails one rendering of the result page sends
retake_mails(theme_key, score, time_spent, down) ==
    LET theme_config == config.themes[theme_key]
    IN  IF passed_of(score, theme_config.passing_score) THEN <<>>
        ELSE IF email_settings.send_on_retake_needed
             THEN notify_admins(config.admins,
                      [to |-> None, subject |-> "retake", user |-> user_email,
                       title |-> theme_config.title, score |-> score,
                       time_spent |-> time_spent, verdict |-> "retake"], down)
             ELSE <<>>

\* the completion mails of a submit
completion_mails(theme_key, score, time_spent, down) ==
    LET theme_config == config.themes[theme_key]
    IN  IF email_settings.send_on_completion
        THEN notify_admins(config.admins,
                 [to |-> None, subject |-> "completion", user |-> user_email,
                  title |-> theme_config.title, score |-> score,
                  time_spent |-> time_spent,
                  verdict |-> completion_verdict(score, theme_config.passing_score)],
                 down)
        ELSE <<>>


(***************************************************************************)
(* Initial state: init_session_state() on a fresh session; empty sink and  *)
(* mail log; any setting of the two notification flags of config.yaml.     *)
(***************************************************************************)
SessionInit ==
    /\ now = 0
    /\ user_email = None
    /\ user_name = None
    /\ current_page = "login"
    /\ selected_theme = None
    /\ start_time = NoneInt
    /\ quiz_answers = <<>>
    /\ quiz_score = NoneInt
    /\ quiz_time_spent = Unset
    /\ radio = <<>>
    /\ sheet = <<>>
    /\ outbox = <<>>
    /\ failed_calls = {}
    /\ last_exception = "none"

Init ==
    /\ SessionInit
    /\ email_settings \in [send_on_completion : BOOLEAN, send_on_retake_needed : BOOLEAN]
    /\ probe = NoProbe

(***************************************************************************)
(* Time passes between interactions.                                       *)
(***************************************************************************)
Tick ==
    /\ now + TickSeconds <= MaxNow
    /\ now' = now + TickSeconds
    /\ UNCHANGED <<user_email, user_name, current_page, selected_theme, start_time,
                   quiz_answers, quiz_score, quiz_time_spent, radio, sheet, outbox,
                   failed_calls, last_exception, email_settings, probe>>

(***************************************************************************)
(* Login page.                                                             *)
(***************************************************************************)
\* the login button with 'email' typed in the box
Login(email) ==
    /\ main_view = "login"
    /\ LET user == IF email = "" THEN NoneRow ELSE authenticate_user(email)
       IN  IF user # NoneRow
           THEN /\ user_email' = email
                /\ user_name' = user.name
                /\ current_page' = "dashboard"
           ELSE UNCHANGED <<user_email, user_name, current_page>>
    /\ radio' = <<>>
    /\ failed_calls' = {}
    /\ last_exception' = "none"
    /\ UNCHANGED <<now, selected_theme, start_time, quiz_answers, quiz_score,
                   quiz_time_spent, sheet, outbox, email_settings, probe>>

(***************************************************************************)
(* Dashboard.                                                              *)
(***************************************************************************)
Logout ==
    /\ main_view = "dashboard"
    /\ user_email' = None
    /\ user_name' = None
    /\ current_page' = "login"
    /\ radio' = <<>>
    /\ failed_calls' = {}
    /\ last_exception' = "none"
    /\ UNCHANGED <<now, selected_theme, start_time, quiz_answers, quiz_score,
                   quiz_time_spent, sheet, outbox, email_settings, probe>>

\* the start button opening the learning page without starting the timer
SelectThemeWithoutTimer(theme_key) ==
    /\ main_view = "dashboard"
    /\ theme_key \in get_enabled_themes
    /\ Len(sheet) < MaxAttempts
    /\ selected_theme' = theme_key
    /\ current_page' = "learning"
    /\ start_time' = start_time
    /\ radio' = <<>>
    /\ failed_calls' = {}
    /\ last_exception' = "none"
    /\ UNCHANGED <<now, user_email, user_name, quiz_answers, quiz_score,
                   quiz_time_spent, sheet, outbox, email_settings, probe>>

\* the start button of one of the themes the dashboard lists
SelectTheme(theme_key) ==
    /\ main_view = "dashboard"
    /\ theme_key \in get_enabled_themes
    /\ Len(sheet) < MaxAttempts
    /\ selected_theme' = theme_key
    /\ current_page' = "learning"
    /\ start_time' = now
    /\ radio' = <<>>
    /\ failed_calls' = {}
    /\ last_exception' = "none"
    /\ UNCHANGED <<now, user_email, user_name, quiz_answers, quiz_score,
                   quiz_time_spent, sheet, outbox, email_settings, probe>>

(***************************************************************************)
(* Learning page.                                                          *)
(***************************************************************************)
LearningBackToDashboard ==
    /\ main_view = "learning"
    /\ current_page' = "dashboard"
    /\ selected_theme' = None
    /\ radio' = <<>>
    /\ failed_calls' = {}
    /\ last_exception' = "none"
    /\ UNCHANGED <<now, user_email, user_name, start_time, quiz_answers, quiz_score,
                   quiz_time_spent, sheet, outbox, email_settings, probe>>


(***************************************************************************)
(* Result page: show_result_page().  It is called by main() when the page  *)
(* is 'result', and by show_quiz_page() when the time limit is exceeded.   *)
(***************************************************************************)
\* the widgets of the last run are on screen unless show_result_page raised
\* before drawing any
widgets_drawn == last_exception \notin {"AttributeError", "TypeError"}

\* show_result_page() drawn without a click on one of its buttons, for the page
\* field 'page' and the score and time the session holds when it is called
ShowResultPage(page, score, time_spent, answers, sent, failed, r, down) ==
    LET exception == result_page_exception(score, time_spent)
        mails == IF exception = "none"
                 THEN retake_mails(selected_theme, score, time_spent, down)
                 ELSE <<>>
    IN  /\ current_page' = page
        /\ quiz_score' = score
        /\ quiz_time_spent' = time_spent
        /\ quiz_answers' = answers
        /\ outbox' = sent \o mails
        /\ failed_calls' = failed \cup FailedSends(mails, down)
        /\ last_exception' = exception
        /\ radio' = r
        /\ UNCHANGED <<now, user_email, user_name, selected_theme, start_time,
                       email_settings, probe>>

\* the rerun after the submit handler
DrawAfterSubmit(page, score, time_spent, answers, sent, failed, r, down) ==
    IF page = "result"
    THEN ShowResultPage(page, score, time_spent, answers, sent, failed, r, down)
    ELSE /\ current_page' = page
         /\ quiz_score' = score
         /\ quiz_time_spent' = time_spent
         /\ quiz_answers' = answers
         /\ outbox' = sent
         /\ failed_calls' = failed
         /\ last_exception' = "none"
         /\ radio' = radio
         /\ UNCHANGED <<now, user_email, user_name, selected_theme, start_time,
                        email_settings, probe>>

\* the call in the result page is reached by main() or by the quiz page's
\* time-exceeded branch
result_page_called ==
    \/ main_view = "result"
    \/ main_view = "quiz" /\ ~remaining_time_positive(selected_theme)

\* the button handler leaving the answers of the finished quiz in the session
reset_quiz_session_keeping_answers ==
    /\ current_page' = "dashboard"
    /\ selected_theme' = None
    /\ quiz_answers' = quiz_answers
    /\ quiz_score' = NoneInt

\* the assignments of either button handler of the result page
reset_quiz_session ==
    /\ current_page' = "dashboard"
    /\ selected_theme' = None
    /\ quiz_answers' = <<>>
    /\ quiz_score' = NoneInt

\* one of the two navigation buttons of the result page ('back to dashboard',
\* 'another theme'): the page is drawn again, then the handler runs
ResultBack(button, down) ==
    /\ result_page_called
    /\ widgets_drawn
    /\ result_page_exception(quiz_score, quiz_time_spent) = "none"
    /\ button \in {"dashboard", "another"}
    /\ down \subseteq RetakeCalls
    /\ LET mails == retake_mails(selected_theme, quiz_score, quiz_time_spent, down)
       IN  /\ outbox' = outbox \o mails
           /\ failed_calls' = FailedSends(mails, down)
    /\ reset_quiz_session
    /\ radio' = <<>>
    /\ last_exception' = "none"
    /\ UNCHANGED <<now, user_email, user_name, start_time, quiz_time_spent,
                   sheet, email_settings, probe>>

(***************************************************************************)
(* Quiz page: show_quiz_page().                                            *)
(***************************************************************************)
\* either 'back to learning' button
QuizToLearning(answers) ==
    /\ current_page' = "learning"
    /\ quiz_answers' = answers
    /\ radio' = <<>>
    /\ failed_calls' = {}
    /\ last_exception' = "none"
    /\ UNCHANGED <<now, user_email, user_name, selected_theme, start_time,
                   quiz_score, quiz_time_spent, sheet, outbox, email_settings, probe>>

\* the quiz page restarting the timer each time it is drawn
QuizDrawnRestartingTimer(answers, r) ==
    /\ current_page' = "quiz"
    /\ quiz_answers' = answers
    /\ radio' = r
    /\ failed_calls' = {}
    /\ last_exception' = "none"
    /\ start_time' = now
    /\ UNCHANGED <<now, user_email, user_name, selected_theme,
                   quiz_score, quiz_time_spent, sheet, outbox, email_settings, probe>>

\* the page is drawn and no handler runs; r is the state of the radios drawn
QuizDrawn(answers, r) ==
    /\ current_page' = "quiz"
    /\ quiz_answers' = answers
    /\ radio' = r
    /\ failed_calls' = {}
    /\ last_exception' = "none"
    /\ UNCHANGED <<now, user_email, user_name, selected_theme, start_time,
                   quiz_score, quiz_time_spent, sheet, outbox, email_settings, probe>>

\* the submit handler undoing its assignments when the row could not be saved
submit_session_rollback(score, time_spent, saved) ==
    IF saved
    THEN [current_page |-> "result", quiz_score |-> score, quiz_time_spent |-> time_spent]
    ELSE [current_page |-> "quiz", quiz_score |-> quiz_score,
          quiz_time_spent |-> quiz_time_spent]

\* what the submit handler leaves in the session: the three assignments are
\* made before the collaborators are called, and their return values are dropped
submit_session(score, time_spent, saved) ==
    [current_page |-> "result", quiz_score |-> score, quiz_time_spent |-> time_spent]

\* the submit handler, after the answers of this run were recorded
SubmitHandler(questions, answers, r, down) ==
    IF Len(questions) = 0
    THEN \* correct_count / len(questions) raises ZeroDivisionError
         /\ current_page' = "quiz"
         /\ quiz_answers' = answers
         /\ radio' = r
         /\ failed_calls' = {}
         /\ last_exception' = "ZeroDivisionError"
         /\ UNCHANGED <<now, user_email, user_name, selected_theme, start_time,
                        quiz_score, quiz_time_spent, sheet, outbox, email_settings, probe>>
    ELSE LET theme_config == config.themes[selected_theme]
             correct_count == correct_count_of(answers)
             score == score_of(correct_count, Len(questions))
             time_spent == time_spent_of(elapsed_seconds)
             row == [user_email |-> user_email, user_name |-> user_name,
                     theme_title |-> theme_config.title, score |-> score,
                     time_spent |-> time_spent,
                     answers |-> answers_list_of(answers, questions)]
             saved == save_to_google_sheets(down)
             mails == completion_mails(selected_theme, score, time_spent, down)
             after == submit_session(score, time_spent, saved)
         IN  /\ sheet' = Append(sheet, row)
             \* st.rerun(): main() draws the page the session names
             /\ DrawAfterSubmit(after.current_page, after.quiz_score,
                                after.quiz_time_spent, answers,
                               outbox \o mails,
                               (IF saved THEN {} ELSE {<<"sheets", "append">>})
                                   \cup FailedSends(mails, down),
                               <<>>, down)

\* one run of show_quiz_page(): 'click' is the widget that caused the run, r the
\* state of the radios, down the collaborator calls that fail
ShowQuizPage(click, r, down) ==
    LET questions == load_questions(selected_theme)
    IN  IF ~remaining_time_positive(selected_theme)
        THEN \* 'time exceeded, submitting automatically': show_result_page()
             /\ ShowResultPage("quiz", quiz_score, quiz_time_spent, quiz_answers,
                               outbox, {}, <<>>, down)
             /\ sheet' = sheet
        ELSE IF click = "back_top"
        THEN QuizToLearning(quiz_answers)
        ELSE IF questions = NoneList
        THEN QuizDrawn(quiz_answers, <<>>)
        ELSE LET drawn == rendered_radio(r, questions)
                 answers == record_answers(quiz_answers, questions, drawn)
             IN  IF click = "back_bottom" THEN QuizToLearning(answers)
                 ELSE IF click = "submit"
                      THEN SubmitHandler(questions, answers, drawn, down)
                      ELSE QuizDrawn(answers, drawn)


\* the questions of the selected theme are on screen
questions_drawn ==
    /\ main_view = "quiz"
    /\ widgets_drawn
    /\ load_questions(selected_theme) # NoneList

\* Learning page: the 'proceed to quiz' button; the rerun draws the quiz page
ProceedToQuiz(down) ==
    /\ main_view = "learning"
    /\ down \subseteq RetakeCalls
    /\ ShowQuizPage("none", <<>>, down)

\* the 'back to learning' button above the questions
QuizBackTop(down) ==
    /\ main_view = "quiz"
    /\ widgets_drawn
    /\ down \subseteq RetakeCalls
    /\ ShowQuizPage("back_top", radio, down)

\* the 'back to learning' button below the questions
QuizBackBottom(down) ==
    /\ questions_drawn
    /\ down \subseteq RetakeCalls
    /\ ShowQuizPage("back_bottom", radio, down)

\* the user picks option 'option' of question 'ordinal'; the run that follows
\* draws the quiz page
Answer(ordinal, option, down) ==
    /\ questions_drawn
    /\ down \subseteq RetakeCalls
    /\ LET questions == load_questions(selected_theme)
           shown == rendered_radio(radio, questions)
       IN  /\ ordinal \in 1..Len(questions)
           /\ option \in questions[ordinal].options
           /\ option # shown[ordinal]
           /\ ShowQuizPage("none", [shown EXCEPT ![ordinal] = option], down)

\* the submit button
Submit(down) ==
    /\ questions_drawn
    /\ ShowQuizPage("submit", radio, down)

(***************************************************************************)
(* Specification.                                                          *)
(***************************************************************************)
\* the ordinals of the questions of any question file
Ordinals == UNION { DOMAIN question_files[p] : p \in DOMAIN question_files }

\* the option indexes of any question
Options ==
    UNION { UNION { question_files[p][i].options : i \in DOMAIN question_files[p] } :
                p \in DOMAIN question_files }

Next ==
    \/ Tick
    \/ \E email \in TypedEmails : Login(email)
    \/ Logout
    \/ \E theme_key \in ThemeKeys : SelectTheme(theme_key)
    \/ LearningBackToDashboard
    \/ \E down \in SUBSET RetakeCalls : ProceedToQuiz(down)
    \/ \E down \in SUBSET RetakeCalls : QuizBackTop(down)
    \/ \E down \in SUBSET RetakeCalls : QuizBackBottom(down)
    \/ \E ordinal \in Ordinals, option \in Options, down \in SUBSET RetakeCalls :
           Answer(ordinal, option, down)
    \/ \E down \in SUBSET Calls : Submit(down)
    \/ \E button \in {"dashboard", "another"}, down \in SUBSET RetakeCalls : ResultBack(button, down)

Spec == Init /\ [][Next]_vars


(***************************************************************************)
(* The pass verdict on its own: a score and a passing score drawn from     *)
(* 0..100 go through the submit handler's verdict (completion mail) and    *)
(* then through the verdicts of the result page.                           *)
(***************************************************************************)
\* scores and passing scores are percentages
Percent == 100

\* everything but probe
app_vars == <<now, user_email, user_name, current_page, selected_theme, start_time,
              quiz_answers, quiz_score, quiz_time_spent, radio, sheet, outbox,
              failed_calls, last_exception, email_settings>>

VerdictInit ==
    /\ SessionInit
    /\ email_settings = [send_on_completion |-> TRUE, send_on_retake_needed |-> TRUE]
    /\ probe \in [stage : {"input"}, score : 0..Percent, passing_score : 0..Percent,
                  mail : {"-"}, delta : {"-"}, status : {"-"}, retake : {FALSE}]

\* the submit handler writes the verdict of the completion mail
VerdictOnSubmit ==
    /\ probe.stage = "input"
    /\ probe' = [probe EXCEPT !.stage = "submitted",
                              !.mail = completion_verdict(probe.score, probe.passing_score)]
    /\ UNCHANGED app_vars

\* the result page shows its verdicts and decides on the retake mails
VerdictOnResult ==
    /\ probe.stage = "submitted"
    /\ probe' = [probe EXCEPT !.stage = "shown",
                              !.delta = metric_delta(probe.score, probe.passing_score),
                              !.status = pass_status(probe.score, probe.passing_score),
                              !.retake = ~passed_of(probe.score, probe.passing_score)]
    /\ UNCHANGED app_vars

VerdictNext == VerdictOnSubmit \/ VerdictOnResult

VerdictSpec == VerdictInit /\ [][VerdictNext]_vars

\* largest number of questions of a theme in the score computation below
MaxQuestionCount == 50

\* The score computation of the submit handler (458-459) on its own: a theme of
\* n questions of which correct_count were answered correctly.
ScoreInit ==
    /\ SessionInit
    /\ email_settings = [send_on_completion |-> TRUE, send_on_retake_needed |-> TRUE]
    /\ probe \in { [stage |-> "input", n |-> n, correct_count |-> c, score |-> NoneInt] :
                      n \in 1..MaxQuestionCount, c \in 0..MaxQuestionCount }
    /\ probe.correct_count <= probe.n

ScoreOnSubmit ==
    /\ probe.stage = "input"
    /\ probe' = [probe EXCEPT !.stage = "submitted",
                              !.score = score_of(probe.correct_count, probe.n)]
    /\ UNCHANGED app_vars

ScoreNext == ScoreOnSubmit

ScoreSpec == ScoreInit /\ [][ScoreNext]_vars

(***************************************************************************)
(* Steps named by the properties below.                                    *)
(***************************************************************************)
\* any interaction of the user (everything but the passing of time)
UserAction ==
    \/ \E email \in TypedEmails : Login(email)
    \/ Logout
    \/ \E theme_key \in ThemeKeys : SelectTheme(theme_key)
    \/ LearningBackToDashboard
    \/ \E down \in SUBSET RetakeCalls : ProceedToQuiz(down)
    \/ \E down \in SUBSET RetakeCalls : QuizBackTop(down)
    \/ \E down \in SUBSET RetakeCalls : QuizBackBottom(down)
    \/ \E ordinal \in Ordinals, option \in Options, down \in SUBSET RetakeCalls :
           Answer(ordinal, option, down)
    \/ \E down \in SUBSET Calls : Submit(down)
    \/ \E button \in {"dashboard", "another"}, down \in SUBSET RetakeCalls : ResultBack(button, down)

\* a run of show_quiz_page()
QuizPageRun ==
    \/ \E down \in SUBSET RetakeCalls : ProceedToQuiz(down)
    \/ \E down \in SUBSET RetakeCalls : QuizBackTop(down)
    \/ \E down \in SUBSET RetakeCalls : QuizBackBottom(down)
    \/ \E ordinal \in Ordinals, option \in Options, down \in SUBSET RetakeCalls :
           Answer(ordinal, option, down)
    \/ \E down \in SUBSET Calls : Submit(down)

\* a run of show_quiz_page() that finds the time limit exceeded
TimeExceededRun ==
    /\ main_view \in {"learning", "quiz"}
    /\ ~remaining_time_positive(selected_theme)
    /\ QuizPageRun

\* a click on the submit button handled within the time limit, on a theme with
\* at least one question
ManualSubmitRun ==
    /\ questions_drawn
    /\ remaining_time_positive(selected_theme)
    /\ Len(load_questions(selected_theme)) > 0
    /\ sheet' # sheet   \* implied by the next conjunct; decides most steps at once
    /\ \E down \in SUBSET Calls : Submit(down)

\* N: the number of questions the quiz page draws for a theme, none when the
\* file could not be loaded
question_count(theme_key) ==
    IF load_questions(theme_key) = NoneList THEN 0 ELSE Len(load_questions(theme_key))

\* the session as init_session_state() makes it
InitialSessionShape ==
    /\ user_email = None
    /\ current_page = "login"
    /\ selected_theme = None
    /\ start_time = NoneInt
    /\ quiz_answers = <<>>
    /\ quiz_score = NoneInt

\* the passing score of the theme with the given title
passing_score_of_title(title) ==
    LET theme_key == CHOOSE k \in ThemeKeys : config.themes[k].title = title
    IN  config.themes[theme_key].passing_score

\* the time limit, in minutes, of the theme with the given title
time_limit_of_title(title) ==
    LET theme_key == CHOOSE k \in ThemeKeys : config.themes[k].title = title
    IN  config.themes[theme_key].time_limit_minutes

\* the admin addresses
Admins == { config.admins[i] : i \in DOMAIN config.admins }

\* how many mails with that subject were addressed to that admin
MailCount(admin, subject) ==
    Cardinality({ i \in DOMAIN outbox : outbox[i].to = admin /\ outbox[i].subject = subject })

\* how many submissions ended below the passing score of their theme
FailedAttempts ==
    Cardinality({ i \in DOMAIN sheet : sheet[i].score < passing_score_of_title(sheet[i].theme_title) })

(***************************************************************************)
(* Properties.                                                             *)
(***************************************************************************)

\* C1: every score a submit stores (themes without questions store none) is
\* an integer in 0..100.
C1_ScoreInRange ==
    quiz_score # NoneInt => quiz_score \in 0..100

\* C2: a logout leaves the session in its initial shape: user null, page
\* Login, selected theme null, start time null, answers empty, score null.
C2_LogoutResetsSession ==
    [][Logout => InitialSessionShape']_vars

\* C3: no terminal state: wherever the session is outside the dashboard, the
\* user has an interaction to take (the first step of a way back to it).
C3_NoTerminalState ==
    main_view = "dashboard" \/ ENABLED UserAction

\* C4: a run of the quiz page that finds the time limit exceeded moves the
\* session to Result with a score and the elapsed minutes computed.
C4_TimeExceededSubmits ==
    [][TimeExceededRun =>
          /\ current_page' = "result"
          /\ quiz_score' # NoneInt
          /\ quiz_time_spent' \notin {NoneInt, Unset}]_vars

\* C5: every submission, manual or by time exceeded, hands exactly one record
\* to the result sink, made of the user, the theme title, the score, the
\* elapsed minutes and one mark per question; no other step adds or changes one.
C5_OneRecordPerSubmission ==
    [][IF ManualSubmitRun \/ TimeExceededRun
       THEN /\ Len(sheet') = Len(sheet) + 1
            /\ SubSeq(sheet', 1, Len(sheet)) = sheet
            /\ LET row == sheet'[Len(sheet')]
               IN  /\ row.user_email = user_email
                   /\ row.theme_title = config.themes[selected_theme].title
                   /\ row.score = quiz_score'
                   /\ row.time_spent = quiz_time_spent'
                   /\ Len(row.answers) = Len(load_questions(selected_theme))
       ELSE sheet' = sheet]_vars

\* C6: while a theme is selected, the ordinals in the answers map are among
\* 1..N, N the number of questions of that theme.
C6_AnswerOrdinalsInRange ==
    (selected_theme # None /\ load_questions(selected_theme) # NoneList)
        => DOMAIN quiz_answers \subseteq 1..Len(load_questions(selected_theme))

\* C7: a successful login shows the dashboard with the user set, no theme
\* selected, no answers and no score.
C7_LoginClearsSession ==
    [][((\E email \in TypedEmails : Login(email)) /\ user_email' # None) =>
          /\ current_page' = "dashboard"
          /\ selected_theme' = None
          /\ quiz_answers' = <<>>
          /\ quiz_score' = NoneInt]_vars

\* C8: on the Learning, Quiz and Result pages the selected theme is a theme of
\* the configuration whose enabled flag is true.
C8_SelectedThemeEnabled ==
    current_page \in {"learning", "quiz", "result"} =>
        /\ selected_theme \in ThemeKeys
        /\ config.themes[selected_theme].enabled

\* C8 witness: a theme is being studied while the configuration holds a
\* disabled theme.
C8_Witness ==
    /\ current_page = "learning"
    /\ selected_theme \in ThemeKeys
    /\ \E theme_key \in ThemeKeys : ~config.themes[theme_key].enabled

\* C9: a manual submit ends in Result with the score and the elapsed minutes
\* that the recorded answers and the clock give, and changes no other session
\* field, whichever collaborator calls fail.
C9_FailuresLeaveSession ==
    [][ManualSubmitRun =>
          LET questions == load_questions(selected_theme)
              answers == record_answers(quiz_answers, questions,
                                        rendered_radio(radio, questions))
          IN  /\ current_page' = "result"
              /\ quiz_answers' = answers
              /\ quiz_score' = (correct_count_of(answers) * 100) \div Len(questions)
              /\ quiz_time_spent' = (now - start_time) \div SecondsPerMinute
              /\ UNCHANGED <<user_email, user_name, selected_theme, start_time>>]_vars

\* C9 witness: the result page after a submit whose save and first completion
\* mail both failed.
C9_Witness ==
    /\ current_page = "result"
    /\ quiz_score # NoneInt
    /\ <<"sheets", "append">> \in failed_calls
    /\ <<config.admins[1], "completion">> \in failed_calls

\* C10: each admin is sent one retake mail per submission that ended below the
\* passing score when retake mails are enabled, and none otherwise.
C10_RetakeOncePerSubmission ==
    \A admin \in Admins :
        MailCount(admin, "retake") =
            IF email_settings.send_on_retake_needed THEN FailedAttempts ELSE 0


\* C11: passed = (score >= passing_score), equality passing, and one verdict per
\* submission: the completion mail, the result page (metric delta and status)
\* and the retake decision agree, for all scores and passing scores in 0..100.
C11_VerdictsAgree ==
    probe.stage = "shown" =>
        LET passed == probe.score >= probe.passing_score
        IN  /\ (probe.mail = "pass") = passed
            /\ (probe.status = "pass") = passed
            /\ (probe.delta = "+") = passed
            /\ probe.retake = ~passed

\* C11 witness: a score equal to the passing score was judged passed everywhere.
C11_Witness ==
    /\ probe.stage = "shown"
    /\ probe.score = probe.passing_score
    /\ probe.mail = "pass"
    /\ probe.status = "pass"
    /\ ~probe.retake


\* C12: every admin address is sent one completion mail per submit when
\* completion mails are enabled, whichever sends fail, and none when they are
\* disabled.
C12_CompletionToEveryAdmin ==
    \A admin \in Admins :
        MailCount(admin, "completion") =
            IF email_settings.send_on_completion THEN Len(sheet) ELSE 0

\* C12 witness: the send to the first admin failed and the second admin was
\* still sent the completion mail.
C12_Witness ==
    /\ current_page = "result"
    /\ <<config.admins[1], "completion">> \in failed_calls
    /\ MailCount(config.admins[2], "completion") = 1


\* C13: submitting a quiz whose question list loaded but is empty never divides
\* by zero.
C13_NoDivisionByZero == last_exception # "ZeroDivisionError"


\* C14: for 1..MaxQuestionCount questions and 0..n correct answers the submitted
\* score is the integer quotient of correct_count * 100 by n.
C14_ScoreIsFloor ==
    probe.stage = "submitted" =>
        probe.score = (probe.correct_count * Percent) \div probe.n


\* C15: a step taken on the quiz page, or one that opens it, neither adds nor
\* changes nor removes an answers entry whose ordinal is outside 1..N of the
\* selected theme.
C15_QuizWritesOrdinalsInRange ==
    [][(main_view = "quiz" \/ (main_view = "learning" /\ current_page' = "quiz")) =>
          \A i \in ((DOMAIN quiz_answers) \cup (DOMAIN quiz_answers'))
                        \ (1..question_count(selected_theme)) :
              /\ i \in DOMAIN quiz_answers
              /\ i \in DOMAIN quiz_answers'
              /\ quiz_answers'[i] = quiz_answers[i]]_vars

\* C15 witness: on the quiz page of the one-question theme the first question
\* was answered while an entry for ordinal 2, left by the two-question theme,
\* is still in the map.
C15_Witness ==
    /\ current_page = "quiz"
    /\ selected_theme = "B"
    /\ radio = <<1>>
    /\ DOMAIN quiz_answers = {1, 2}
    /\ quiz_answers[1]


\* C16: the session is never on the quiz page of a theme whose question file
\* fails to load.
C16_NoQuizWithoutQuestions ==
    (current_page = "quiz" /\ selected_theme # None) =>
        load_questions(selected_theme) # NoneList


\* C17: a step that leaves the result page ends on the dashboard with no
\* selected theme, no answers and no score, and with the same user.
C17_LeavingResultClearsQuiz ==
    [][(current_page = "result" /\ current_page' # "result") =>
          /\ current_page' = "dashboard"
          /\ selected_theme' = None
          /\ quiz_answers' = <<>>
          /\ quiz_score' = NoneInt
          /\ user_email' = user_email
          /\ user_name' = user_name]_vars

\* C17 witness: the dashboard after a submitted quiz and a click on one of the
\* buttons of the result page.
C17_Witness ==
    /\ current_page = "dashboard"
    /\ user_email # None
    /\ Len(sheet) = MaxAttempts
    /\ quiz_time_spent # Unset
    /\ selected_theme = None
    /\ quiz_answers = <<>>
    /\ quiz_score = NoneInt


\* C18: the start timestamp changes only in a step that starts a theme on the
\* dashboard, which sets it to the current time; every step taken on the
\* learning, quiz or result page (learning to quiz, quiz to learning, an answer)
\* leaves it unchanged.
C18_TimerSetOnlyBySelectTheme ==
    [][/\ main_view # "dashboard" => start_time' = start_time
       /\ start_time' # start_time =>
              /\ selected_theme' \in ThemeKeys
              /\ current_page' = "learning"
              /\ start_time' = now]_vars

\* C18 witness: the quiz page with an answer given, opened some time after the
\* theme was started.
C18_Witness ==
    /\ current_page = "quiz"
    /\ start_time # NoneInt
    /\ now > start_time
    /\ radio # <<>>
    /\ quiz_answers # <<>>


\* C19: on the learning, quiz and result pages the user, the selected theme and
\* the start timestamp are all set; and without a user the login view is
\* served.
C19_PagesHaveUserThemeTimer ==
    /\ current_page \in {"learning", "quiz", "result"} =>
           /\ user_email # None
           /\ user_name # None
           /\ selected_theme # None
           /\ start_time # NoneInt
    /\ user_email = None => main_view = "login"

\* C19 witness: the result page of a submitted quiz, with user, theme and start
\* timestamp set.
C19_Witness ==
    /\ current_page = "result"
    /\ quiz_score # NoneInt
    /\ user_email # None
    /\ selected_theme \in ThemeKeys
    /\ start_time >= 0


\* C20: every row appended by the submit handler carries a number of elapsed
\* minutes below the time limit of its theme.
C20_SubmittedWithinTimeLimit ==
    \A i \in DOMAIN sheet :
        sheet[i].time_spent < time_limit_of_title(sheet[i].theme_title)

\* C20 witness: a row submitted one minute into the two-minute theme.
C20_Witness ==
    \E i \in DOMAIN sheet :
        /\ sheet[i].theme_title = config.themes["A"].title
        /\ sheet[i].time_spent = 1

=============================================================================
